---- MODULE Spec2Model ----
(***************************************************************************)
(* Model of the alanine-scanning analysis of haddock3                      *)
(* (src/haddock/modules/analysis/alascan/scan.py) and of the MPI hand-off  *)
(* (src/haddock/libs/libmpi.py).                                           *)
(*                                                                         *)
(* Text is modelled as a sequence of tokens (one-character strings, and    *)
(* residue names as one token), so that str(), split() and the ordering    *)
(* of strings are computed and not assumed.  Floating values are exact     *)
(* rationals <<numerator, denominator>>; the values of the result files,   *)
(* written with three decimals, are integers in units of 0.001.            *)
(***************************************************************************)
EXTENDS Integers, Sequences, FiniteSets, TLC

VARIABLES
    \* ---- alascan_cluster_analysis ----
    models,        \* the list of models handed to the aggregator
    scan_files,    \* working directory: result file name -> rows, or Absent
    clt_scan,      \* cluster id -> entries (ident, sums, frac_pr), insertion order
    cl_pops,       \* cluster id -> number of models counted
    clt_order,     \* cluster ids in the order clt_scan received them
    agg_i,         \* index of the next model to read
    agg_pc,        \* "accumulate" | "average" | "done" | "raised"
    summaries,     \* cluster id -> rows of the written summary
    \* ---- MPIScheduler.run ----
    mpi_env,       \* which launchers find_executable finds, and self.ncores
    mpi_pc,        \* "start" | "pickled" | "selected" | "launched" |
                   \* "returned" | "exited"
    mpi_pickled,   \* the artifacts _pickle_tasks has written
    mpi_cmd,       \* the command line chosen, or NoCmd
    mpi_procs,     \* the subprocesses run so far: argv and what they gave back
    \* ---- mutate ----
    mut_in,        \* the arguments: pdb_f (name, lines), chain, resnum, resname
    mut_out,       \* Pending, or what the call did: the file written, or raised
    \* ---- calc_score ----
    sc_in,         \* what the scorer process gave back: returncode, stdout lines
    sc_out,        \* Pending, or the tuple returned, or the exception raised
    \* ---- add_zscores ----
    z_in,          \* the delta column of the dataframe
    z_out,         \* Pending, or the z_score column assigned
    \* ---- ScanJob.run of concurrent jobs ----
    job,           \* per job: the Scan object, its position and its locals
    disk,          \* the structure files in the working directory
    fs_writes      \* per job: the paths it has written so far

aggVars == <<models, scan_files, clt_scan, cl_pops, clt_order, agg_i, agg_pc,
             summaries>>
mpiVars == <<mpi_env, mpi_pc, mpi_pickled, mpi_cmd, mpi_procs>>

mutVars == <<mut_in, mut_out>>

scVars == <<sc_in, sc_out>>

zVars == <<z_in, z_out>>

scanVars == <<job, disk, fs_writes>>

vars == <<aggVars, mpiVars, mutVars, scVars, zVars, scanVars>>

\* What each component leaves alone
notAgg == <<mpiVars, mutVars, scVars, zVars, scanVars>>
notMpi == <<aggVars, mutVars, scVars, zVars, scanVars>>
notMut == <<aggVars, mpiVars, scVars, zVars, scanVars>>
notSc == <<aggVars, mpiVars, mutVars, zVars, scanVars>>
notZ == <<aggVars, mpiVars, mutVars, scVars, scanVars>>
\* The jobs write the result files the aggregator reads (scan_files)
notScan == <<models, clt_scan, cl_pops, clt_order, agg_i, agg_pc, summaries,
             mpiVars, mutVars, scVars, zVars>>

\* --------------------------------------------------------------- bounds
MaxModels == 2

\* ------------------------------------------------------------- text
DigitChar == <<"0", "1", "2", "3", "4", "5", "6", "7", "8", "9">>

\* Code points of the characters that occur, for the ordering of strings.
Ord(c) ==
    CASE c = "-" -> 45
      [] c = "0" -> 48 [] c = "1" -> 49 [] c = "2" -> 50 [] c = "3" -> 51
      [] c = "4" -> 52 [] c = "5" -> 53 [] c = "6" -> 54 [] c = "7" -> 55
      [] c = "8" -> 56 [] c = "9" -> 57
      [] c = "A" -> 65 [] c = "B" -> 66
      [] OTHER -> 90

RECURSIVE Digits(_)
Digits(n) ==
    IF n < 10 THEN <<DigitChar[n + 1]>>
    ELSE Digits(n \div 10) \o <<DigitChar[(n % 10) + 1]>>

\* str(n) of an integer
IntToStr(n) == IF n < 0 THEN <<"-">> \o Digits(-n) ELSE Digits(n)

\* s.split(sep): the parts between the separators
RECURSIVE SplitFrom(_, _, _, _)
SplitFrom(s, sep, i, cur) ==
    IF i > Len(s) THEN <<cur>>
    ELSE IF s[i] = sep THEN <<cur>> \o SplitFrom(s, sep, i + 1, <<>>)
    ELSE SplitFrom(s, sep, i + 1, Append(cur, s[i]))

Split(s, sep) == SplitFrom(s, sep, 1, <<>>)

\* a < b for strings (lexicographic by code point), as Python compares str
RECURSIVE StrLess(_, _)
StrLess(a, b) ==
    IF b = <<>> THEN FALSE
    ELSE IF a = <<>> THEN TRUE
    ELSE IF Ord(a[1]) # Ord(b[1]) THEN Ord(a[1]) < Ord(b[1])
    ELSE StrLess(Tail(a), Tail(b))

\* ---------------------------------------------------------- rationals
Abs(n) == IF n < 0 THEN -n ELSE n

RECURSIVE GCD(_, _)
GCD(a, b) == IF b = 0 THEN a ELSE GCD(b, a % b)

\* n / d (d > 0) in lowest terms
Rat(n, d) ==
    LET g == GCD(Abs(n), d) IN <<n \div g, d \div g>>

RECURSIVE SeqSum(_)
SeqSum(s) == IF s = <<>> THEN 0 ELSE s[1] + SeqSum(Tail(s))

RECURSIVE SeqProd(_)
SeqProd(s) == IF s = <<>> THEN 1 ELSE s[1] * SeqProd(Tail(s))

\* f with key k set to v (a dict assignment)
Ext(f, k, v) == [x \in DOMAIN f \cup {k} |-> IF x = k THEN v ELSE f[x]]

\* ------------------------------------------------------- add_zscores
\* pandas' Series.std() divides by (n - ddof) with ddof = 1 by default.
Ddof == 1

NaN == [kind |-> "nan"]

RECURSIVE SeqGCD(_)
SeqGCD(s) == IF s = <<>> THEN 0 ELSE GCD(Abs(s[1]), SeqGCD(Tail(s)))

\* The column as integers in the same proportions (over a common
\* denominator, common factor taken out): z-scores do not change under
\* scaling.
Scaled(col) ==
    LET D == SeqProd([i \in 1..Len(col) |-> col[i][2]])
        xs == [i \in 1..Len(col) |-> col[i][1] * (D \div col[i][2])]
        g == IF SeqGCD(xs) = 0 THEN 1 ELSE SeqGCD(xs)
    IN  [i \in 1..Len(col) |-> xs[i] \div g]

\* n * sum((x - mean)^2), an integer: the variance is this over n * (n - ddof)
SumSq(xs) ==
    LET n == Len(xs)
        S == SeqSum(xs)
    IN  n * SeqSum([i \in 1..n |-> xs[i] * xs[i]]) - S * S

\* df[column].std(): "nan" when n - ddof <= 0 (0/0), else zero or positive
StdKind(col) ==
    IF Len(col) - Ddof <= 0 THEN "nan"
    ELSE IF SumSq(Scaled(col)) = 0 THEN "zero" ELSE "pos"

Sign(n) == IF n < 0 THEN -1 ELSE IF n = 0 THEN 0 ELSE 1

\* (x - mean) / std, kept exact as its sign and its square
ZValue(xs, i) ==
    LET n == Len(xs)
        num == n * xs[i] - SeqSum(xs)
    IN  [kind |-> "num", sign |-> Sign(num),
         sq |-> Rat(num * num * (n - Ddof), n * SumSq(xs))]

ZeroZ == [kind |-> "num", sign |-> 0, sq |-> <<0, 1>>]

\* The z_score column add_zscores assigns for a column of values.
\* std_delta != 0.0 is true of a not-a-number std, and x / nan is nan.
add_zscores(col) ==
    LET std_delta == StdKind(col)
    IN  IF std_delta # "zero"
        THEN [i \in 1..Len(col) |->
                 IF std_delta = "nan" THEN NaN ELSE ZValue(Scaled(col), i)]
        ELSE [i \in 1..Len(col) |-> ZeroZ]

\* ------------------------------------------- alascan_cluster_analysis
NoneVal == "None"
Absent == [present |-> FALSE, rows |-> <<>>]
ClusterIds == {NoneVal, "1"}

\* native.file_name of the i-th model
FileName(i) == <<"model_">> \o IntToStr(i) \o <<".pdb">>

\* f"scan_{native.file_name}.csv"
ScanFname(file_name) == <<"scan_">> \o file_name \o <<".csv">>

\* Interface residues a structure may have, in the order they are scanned.
KeySeq == << [chain |-> "A", res |-> 2,  ori_resname |-> "LYS"],
             [chain |-> "A", res |-> 10, ori_resname |-> "GLU"],
             [chain |-> "A", res |-> 1,  ori_resname |-> "LYS"],
             [chain |-> "B", res |-> 1,  ori_resname |-> "ASP"] >>

\* The five deltas (score, vdw, elec, desolv, bsa) of the row of residue k
\* in the result file of the i-th model, in units of 0.001
DeltaOf(i, k) == [t \in 1..5 |-> i * (k + t) * 500 - 2000]

RECURSIVE RowsFrom(_, _, _)
RowsFrom(S, i, k) ==
    IF k > Len(KeySeq) THEN <<>>
    ELSE (IF k \in S
          THEN << [chain |-> KeySeq[k].chain, res |-> KeySeq[k].res,
                   ori_resname |-> KeySeq[k].ori_resname,
                   delta |-> DeltaOf(i, k)] >>
          ELSE <<>>) \o RowsFrom(S, i, k + 1)

\* The result files a Scan job can have written for the i-th model: one row
\* per scanned residue
ScanFileContents(i) ==
    {[present |-> TRUE, rows |-> RowsFrom(S, i, 1)] :
        S \in SUBSET (1..Len(KeySeq))}

\* f"{chain}-{res}-{ori_resname}"
Ident(chain, res, ori_resname) ==
    <<chain>> \o <<"-">> \o IntToStr(res) \o <<"-">> \o <<ori_resname>>

IdentIndex(entries, ident) ==
    IF \E j \in 1..Len(entries) : entries[j].ident = ident
    THEN CHOOSE j \in 1..Len(entries) : entries[j].ident = ident
    ELSE 0

\* Lines 159-186 for one row: a new key starts at the row's values with
\* frac_pr 1, a known key adds the values and counts one more occurrence.
AddRow(entries, row) ==
    LET ident == Ident(row.chain, row.res, row.ori_resname)
        j == IdentIndex(entries, ident)
    IN  IF j = 0
        THEN Append(entries, [ident |-> ident, delta |-> row.delta,
                              frac_pr |-> 1])
        ELSE [entries EXCEPT
                 ![j].delta = [t \in 1..5 |-> @[t] + row.delta[t]],
                 ![j].frac_pr = @ + 1]

RECURSIVE AccumulateRows(_, _)
AccumulateRows(entries, rows) ==
    IF rows = <<>> THEN entries
    ELSE AccumulateRows(AddRow(entries, rows[1]), Tail(rows))

ClusterKey(clt_id) == IF clt_id = NoneVal THEN "-" ELSE clt_id

\* CountModel without the increment of line 154
CountModelOnce(pops, cl_id) ==
    IF cl_id \notin DOMAIN pops THEN Ext(pops, cl_id, 1) ELSE pops

\* cl_pops after lines 150-154
CountModel(pops, cl_id) ==
    IF cl_id \notin DOMAIN pops THEN Ext(pops, cl_id, 1)
    ELSE [pops EXCEPT ![cl_id] = @ + 1]

\* CltRow with a single denominator, the cluster population, for both
CltRowOneDenominator(entry, pop) ==
    LET parts == Split(entry.ident, "-")
    IN  [chain |-> parts[1], resnum |-> parts[2], resname |-> parts[3],
         full_resname |-> entry.ident,
         delta |-> [t \in 1..5 |-> Rat(entry.delta[t], pop)],
         frac_pres |-> Rat(entry.frac_pr, pop)]

\* Lines 192-205: one row of clt_data per ident
CltRow(entry, pop) ==
    LET parts == Split(entry.ident, "-")
    IN  [chain |-> parts[1], resnum |-> parts[2], resname |-> parts[3],
         full_resname |-> entry.ident,
         delta |-> [t \in 1..5 |-> Rat(entry.delta[t], entry.frac_pr)],
         frac_pres |-> Rat(entry.frac_pr, pop)]

CltData(entries, pop) == [j \in 1..Len(entries) |-> CltRow(entries[j], pop)]

\* The order of sort_values(by=['chain', 'resnum']) on the columns as they are
KeyLess(a, b) ==
    \/ StrLess(a.chain, b.chain)
    \/ a.chain = b.chain /\ StrLess(a.resnum, b.resnum)

RECURSIVE InsertRow(_, _)
InsertRow(sorted, r) ==
    IF sorted = <<>> THEN <<r>>
    ELSE IF KeyLess(r, sorted[1]) THEN <<r>> \o sorted
    ELSE <<sorted[1]>> \o InsertRow(Tail(sorted), r)

RECURSIVE SortValues(_)
SortValues(rows) ==
    IF rows = <<>> THEN <<>>
    ELSE InsertRow(SortValues(SubSeq(rows, 1, Len(rows) - 1)), rows[Len(rows)])

\* Lines 209-213: the z_score column over delta_score, then the sort
ClusterSummary(entries, pop) ==
    LET data == CltData(entries, pop)
        z == add_zscores([j \in 1..Len(data) |-> data[j].delta[1]])
    IN  SortValues([j \in 1..Len(data) |->
                       [chain |-> data[j].chain, resnum |-> data[j].resnum,
                        resname |-> data[j].resname,
                        full_resname |-> data[j].full_resname,
                        delta |-> data[j].delta,
                        frac_pres |-> data[j].frac_pres,
                        z_score |-> z[j]]])

EmptyMap == [x \in {} |-> 0]

AggInit ==
    /\ \E n \in 0..MaxModels :
         /\ \E cl \in [1..n -> ClusterIds] :
              models = [i \in 1..n |->
                           [clt_id |-> cl[i], file_name |-> FileName(i)]]
         /\ \E files \in [1..n -> [present : BOOLEAN,
                                   keys : SUBSET (1..Len(KeySeq))]] :
              scan_files =
                 [f \in {ScanFname(FileName(i)) : i \in 1..n} |->
                     LET i == CHOOSE h \in 1..n : f = ScanFname(FileName(h))
                     IN  IF ~files[i].present THEN Absent
                         ELSE [present |-> TRUE,
                               rows |-> RowsFrom(files[i].keys, i, 1)]]
    /\ clt_scan = EmptyMap
    /\ cl_pops = EmptyMap
    /\ clt_order = <<>>
    /\ agg_i = 1
    /\ agg_pc = IF models = <<>> THEN "done" ELSE "accumulate"
    /\ summaries = EmptyMap

AggIdle ==
    /\ models = <<>>
    /\ scan_files = EmptyMap
    /\ clt_scan = EmptyMap
    /\ cl_pops = EmptyMap
    /\ clt_order = <<>>
    /\ agg_i = 1
    /\ agg_pc = "done"
    /\ summaries = EmptyMap

\* One pass of the loop of lines 145-186: count the model in its cluster,
\* read its result file (read_csv raises when the file is absent) and add
\* every row to the cluster's sums.
ReadScan ==
    /\ agg_pc = "accumulate"
    /\ LET native == models[agg_i]
           cl_id == ClusterKey(native.clt_id)
           scan0 == IF cl_id \notin DOMAIN clt_scan
                    THEN Ext(clt_scan, cl_id, <<>>) ELSE clt_scan
           alascan_fname == ScanFname(native.file_name)
           df_scan == scan_files[alascan_fname]
       IN  /\ cl_pops' = CountModel(cl_pops, cl_id)
           /\ clt_order' = IF cl_id \notin DOMAIN clt_scan
                           THEN Append(clt_order, cl_id) ELSE clt_order
           /\ IF ~df_scan.present
              THEN /\ clt_scan' = scan0
                   /\ agg_pc' = "raised"
                   /\ agg_i' = agg_i
              ELSE /\ clt_scan' = [scan0 EXCEPT
                                     ![cl_id] = AccumulateRows(@, df_scan.rows)]
                   /\ agg_i' = agg_i + 1
                   /\ agg_pc' = IF agg_i = Len(models)
                                THEN "average" ELSE "accumulate"
    /\ UNCHANGED <<models, scan_files, summaries>>
    /\ UNCHANGED notAgg

\* One pass of the loop of lines 188-218: the summary of the next cluster.
WriteCluster ==
    /\ agg_pc = "average"
    /\ LET c == CHOOSE j \in 1..Len(clt_order) :
                   /\ clt_order[j] \notin DOMAIN summaries
                   /\ \A h \in 1..(j - 1) : clt_order[h] \in DOMAIN summaries
           cl_id == clt_order[c]
       IN  /\ summaries' = Ext(summaries, cl_id,
                               ClusterSummary(clt_scan[cl_id], cl_pops[cl_id]))
           /\ agg_pc' = IF c = Len(clt_order) THEN "done" ELSE "average"
    /\ UNCHANGED <<models, scan_files, clt_scan, cl_pops, clt_order, agg_i>>
    /\ UNCHANGED notAgg

AggNext == ReadScan \/ WriteCluster

\* SpecAgg is defined with the other specifications, after every component.

\* ------------------------------------------------ claims on the aggregator
\* The models assigned to a cluster, and what their result files hold.
ClusterMembers(cl_id) ==
    {i \in 1..Len(models) : ClusterKey(models[i].clt_id) = cl_id}

FileRows(i) == scan_files[ScanFname(models[i].file_name)].rows

RowIsKey(row, key) ==
    /\ row.chain = key.chain
    /\ row.res = key.res
    /\ row.ori_resname = key.ori_resname

HasKey(i, key) == \E j \in 1..Len(FileRows(i)) : RowIsKey(FileRows(i)[j], key)

RowOfKey(i, key) ==
    FileRows(i)[CHOOSE j \in 1..Len(FileRows(i)) : RowIsKey(FileRows(i)[j], key)]

\* The members of the cluster whose result file contains the key
Occurrences(cl_id, key) == {i \in ClusterMembers(cl_id) : HasKey(i, key)}

\* The sum of delta term t over those members
TermSum(cl_id, key, t) ==
    SeqSum([i \in 1..Len(models) |->
               IF i \in Occurrences(cl_id, key)
               THEN RowOfKey(i, key).delta[t] ELSE 0])

KeysOf(cl_id) ==
    {k \in 1..Len(KeySeq) : Occurrences(cl_id, KeySeq[k]) # {}}

SummaryRowOf(cl_id, key) ==
    LET rows == summaries[cl_id]
        id == Ident(key.chain, key.res, key.ori_resname)
    IN  {rows[j] : j \in {h \in 1..Len(rows) : rows[h].full_resname = id}}

\* C1: for every cluster and every key, each of the five averaged deltas is
\* the sum of the term over the members whose result file holds the key
\* divided by the number of those members, and fraction-present is that
\* number divided by the number of models assigned to the cluster.
C1_AveragesAndFraction ==
    \A cl_id \in DOMAIN summaries :
        /\ Len(summaries[cl_id]) = Cardinality(KeysOf(cl_id))
        /\ \A k \in KeysOf(cl_id) :
             LET occ == Cardinality(Occurrences(cl_id, KeySeq[k]))
                 pop == Cardinality(ClusterMembers(cl_id))
             IN  \E row \in SummaryRowOf(cl_id, KeySeq[k]) :
                    /\ \A t \in 1..5 :
                         row.delta[t] = Rat(TermSum(cl_id, KeySeq[k], t), occ)
                    /\ row.frac_pres = Rat(occ, pop)

\* A key present in 1 of the 2 members of a cluster with delta_score 2.0 is
\* written with averaged delta_score 2.0 and fraction-present 0.5, beside a
\* key both members hold with different values.
C1_Witness ==
    /\ agg_pc = "done"
    /\ \E cl_id \in DOMAIN summaries :
         /\ Cardinality(ClusterMembers(cl_id)) = 2
         /\ \E k \in KeysOf(cl_id) :
              /\ Cardinality(Occurrences(cl_id, KeySeq[k])) = 1
              /\ \E row \in SummaryRowOf(cl_id, KeySeq[k]) :
                   /\ row.delta[1] = <<2000, 1>>
                   /\ row.frac_pres = <<1, 2>>
         /\ \E k \in KeysOf(cl_id) :
              /\ Cardinality(Occurrences(cl_id, KeySeq[k])) = 2
              /\ \E i, j \in Occurrences(cl_id, KeySeq[k]) :
                   RowOfKey(i, KeySeq[k]).delta # RowOfKey(j, KeySeq[k]).delta

\* C2: a member whose result file is absent does not make the aggregation
\* fail; it is counted in cl_pops and the summaries of all clusters are
\* still produced.
C2_AbsentFileTolerated ==
    /\ agg_pc # "raised"
    /\ agg_pc = "done" =>
         /\ \A i \in 1..Len(models) :
              ClusterKey(models[i].clt_id) \in DOMAIN summaries
         /\ \A cl_id \in DOMAIN cl_pops :
              cl_pops[cl_id] = Cardinality(ClusterMembers(cl_id))

\* C12: while the result files are accumulated, and for files that hold at
\* most one row per key, the occurrence counter frac_pr of every key of
\* every cluster is at least 1 and at most cl_pops of that cluster, the
\* number of models counted so far; every written fraction-present value
\* therefore lies in (0, 1].
C12_OccurrencesWithinPopulation ==
    /\ \A cl_id \in DOMAIN clt_scan :
         /\ cl_id \in DOMAIN cl_pops
         /\ \A j \in 1..Len(clt_scan[cl_id]) :
              /\ 1 <= clt_scan[cl_id][j].frac_pr
              /\ clt_scan[cl_id][j].frac_pr <= cl_pops[cl_id]
    /\ \A cl_id \in DOMAIN summaries :
         \A j \in 1..Len(summaries[cl_id]) :
             LET frac_pres == summaries[cl_id][j].frac_pres
             IN  /\ 0 < frac_pres[1]
                 /\ frac_pres[1] <= frac_pres[2]

\* Both models of a cluster were read, every file with one row per key: one
\* key was in both files and reached the population, 2, another was in one
\* file only; their fractions were written as 1 and 1/2.
C12_Witness ==
    /\ agg_pc = "done"
    /\ \A i \in 1..Len(models) :
         \A j, h \in 1..Len(FileRows(i)) :
             Ident(FileRows(i)[j].chain, FileRows(i)[j].res,
                   FileRows(i)[j].ori_resname)
               = Ident(FileRows(i)[h].chain, FileRows(i)[h].res,
                       FileRows(i)[h].ori_resname) => j = h
    /\ \E cl_id \in DOMAIN clt_scan :
         /\ cl_pops[cl_id] = 2
         /\ \E j, h \in 1..Len(clt_scan[cl_id]) :
              /\ clt_scan[cl_id][j].frac_pr = 2
              /\ clt_scan[cl_id][h].frac_pr = 1
         /\ \E j, h \in 1..Len(summaries[cl_id]) :
              /\ summaries[cl_id][j].frac_pres = <<1, 1>>
              /\ summaries[cl_id][h].frac_pres = <<1, 2>>

\* The number a string of digits spells
DigitVal(c) == Ord(c) - 48

RECURSIVE StrToNat(_)
StrToNat(s) ==
    IF s = <<>> THEN 0
    ELSE 10 * StrToNat(SubSeq(s, 1, Len(s) - 1)) + DigitVal(s[Len(s)])

\* (chain, residue number) with the residue number compared as a number
NumKeyLess(a, b) ==
    \/ StrLess(a.chain, b.chain)
    \/ a.chain = b.chain /\ StrToNat(a.resnum) < StrToNat(b.resnum)

\* C3: the rows of every written cluster summary are in ascending order of
\* (chain, residue number), the residue number compared numerically.
C3_RowsSortedNumerically ==
    \A cl_id \in DOMAIN summaries :
        \A j, h \in 1..Len(summaries[cl_id]) :
            j < h => ~NumKeyLess(summaries[cl_id][h], summaries[cl_id][j])

\* ------------------------------------------------------ MPIScheduler.run
MaxCores == 4

NoCmd == <<>>

\* Path(self.cwd, "mpi.pkl")
PklPath == <<"cwd", "/", "mpi.pkl">>

\* Lines 28-34 with the launchers' precedence reversed
LauncherCmdSrunFirst(mpirun, srun, ncores, pkl_tasks) ==
    IF srun
    THEN <<"srun", "haddock3-mpitask">> \o <<pkl_tasks>>
    ELSE IF mpirun
    THEN <<"mpirun", "-np", IntToStr(ncores), "haddock3-mpitask">>
            \o <<pkl_tasks>>
    ELSE NoCmd

\* Lines 28-34: shlex.split(cmd) of the command chosen, NoCmd when neither
\* launcher is found
LauncherCmd(mpirun, srun, ncores, pkl_tasks) ==
    IF mpirun
    THEN <<"mpirun", "-np", IntToStr(ncores), "haddock3-mpitask">>
            \o <<pkl_tasks>>
    ELSE IF srun
    THEN <<"srun", "haddock3-mpitask">> \o <<pkl_tasks>>
    ELSE NoCmd

\* What the driver process can give back
ReturnCodes == {0, 1}
StdoutTexts == {<<>>, <<"done">>}
StderrTexts == {<<>>, <<"warning">>, <<"Traceback">>}

\* Line 45 deciding on the exit code instead of the error stream
FatalOnReturnCode(p) == p.returncode # 0

\* Line 45: `if err:`
Fatal(p) == p.stderr # <<>>

MpiInit ==
    /\ mpi_env \in [mpirun : BOOLEAN, srun : BOOLEAN, ncores : 1..MaxCores]
    /\ mpi_pc = "start"
    /\ mpi_pickled = {}
    /\ mpi_cmd = NoCmd
    /\ mpi_procs = <<>>

MpiIdle ==
    /\ mpi_env = [mpirun |-> FALSE, srun |-> FALSE, ncores |-> 1]
    /\ mpi_pc = "exited"
    /\ mpi_pickled = {}
    /\ mpi_cmd = NoCmd
    /\ mpi_procs = <<>>

\* Line 23, _pickle_tasks: the task list is written to cwd/mpi.pkl
PickleTasks ==
    /\ mpi_pc = "start"
    /\ mpi_pickled' = mpi_pickled \cup {PklPath}
    /\ mpi_pc' = "pickled"
    /\ UNCHANGED <<mpi_env, mpi_cmd, mpi_procs>>
    /\ UNCHANGED notMpi

\* Lines 28-36: the launcher is chosen, or sys.exit() when there is none
SelectLauncher ==
    /\ mpi_pc = "pickled"
    /\ LET cmd == LauncherCmd(mpi_env.mpirun, mpi_env.srun, mpi_env.ncores,
                              PklPath)
       IN  /\ mpi_cmd' = cmd
           /\ mpi_pc' = IF cmd = NoCmd THEN "exited" ELSE "selected"
    /\ UNCHANGED <<mpi_env, mpi_pickled, mpi_procs>>
    /\ UNCHANGED notMpi

\* Lines 38-43: subprocess.run of the command; the driver's exit code and
\* streams are the driver's choice
RunDriver ==
    /\ mpi_pc = "selected"
    /\ \E rc \in ReturnCodes, out \in StdoutTexts, err \in StderrTexts :
         mpi_procs' = Append(mpi_procs,
                             [argv |-> mpi_cmd, returncode |-> rc,
                              stdout |-> out, stderr |-> err])
    /\ mpi_pc' = "launched"
    /\ UNCHANGED <<mpi_env, mpi_pickled, mpi_cmd>>
    /\ UNCHANGED notMpi

\* Lines 45-47: any error output ends the run with sys.exit(), else run returns
CheckStderr ==
    /\ mpi_pc = "launched"
    /\ mpi_pc' = IF Fatal(mpi_procs[Len(mpi_procs)]) THEN "exited"
                 ELSE "returned"
    /\ UNCHANGED <<mpi_env, mpi_pickled, mpi_cmd, mpi_procs>>
    /\ UNCHANGED notMpi

MpiNext == PickleTasks \/ SelectLauncher \/ RunDriver \/ CheckStderr

\* C4: mpirun, when found, is the launcher, with the core count, also when
\* srun is found too; otherwise srun, without a core count; with neither the
\* run exits and no subprocess is ever started.
C4_LauncherPrecedence ==
    /\ Len(mpi_procs) <= 1
    /\ \A i \in 1..Len(mpi_procs) : mpi_procs[i].argv = mpi_cmd
    /\ mpi_pc \notin {"start", "pickled"} =>
         /\ mpi_env.mpirun =>
              mpi_cmd = <<"mpirun", "-np">> \o IntToStr(mpi_env.ncores)
                           \o <<"haddock3-mpitask", PklPath>>
         /\ ~mpi_env.mpirun /\ mpi_env.srun =>
              mpi_cmd = <<"srun", "haddock3-mpitask", PklPath>>
         /\ ~mpi_env.mpirun /\ ~mpi_env.srun =>
              /\ mpi_pc = "exited"
              /\ mpi_procs = <<>>

\* Both launchers are found and the driver was started through mpirun.
C4_Witness ==
    /\ mpi_env.mpirun /\ mpi_env.srun
    /\ mpi_env.ncores > 1
    /\ Len(mpi_procs) = 1
    /\ mpi_procs[1].argv[1] = "mpirun"

\* C5: when the driver wrote anything to its standard error the run ends by
\* sys.exit() and does not return, whatever its exit code and standard
\* output; the run returns only after an empty standard error.
C5_StderrIsFatal ==
    /\ mpi_pc = "returned" =>
         /\ Len(mpi_procs) = 1
         /\ mpi_procs[1].stderr = <<>>
    /\ mpi_pc = "exited" /\ mpi_procs # <<>> =>
         mpi_procs[Len(mpi_procs)].stderr # <<>>
    /\ \A i \in 1..Len(mpi_procs) :
         mpi_procs[i].stderr # <<>> => mpi_pc \in {"launched", "exited"}

\* The driver exited with code 0 and wrote to both streams: the run exits.
C5_Witness ==
    /\ mpi_pc = "exited"
    /\ Len(mpi_procs) = 1
    /\ mpi_procs[1].returncode = 0
    /\ mpi_procs[1].stdout # <<>>
    /\ mpi_procs[1].stderr # <<>>

\* ---------------------------------------------------------------- mutate
MaxLines == 4

ATOMS_TO_BE_MUTATED == {"C", "N", "CA", "O", "CB"}

RES_CODES ==
    [r \in {"CYS", "ASP", "SER", "GLN", "LYS", "ILE", "PRO", "THR", "PHE",
            "ASN", "GLY", "HIS", "LEU", "ARG", "TRP", "ALA", "VAL", "GLU",
            "TYR", "MET"} |->
        CASE r = "CYS" -> "C" [] r = "ASP" -> "D" [] r = "SER" -> "S"
          [] r = "GLN" -> "Q" [] r = "LYS" -> "K" [] r = "ILE" -> "I"
          [] r = "PRO" -> "P" [] r = "THR" -> "T" [] r = "PHE" -> "F"
          [] r = "ASN" -> "N" [] r = "GLY" -> "G" [] r = "HIS" -> "H"
          [] r = "LEU" -> "L" [] r = "ARG" -> "R" [] r = "TRP" -> "W"
          [] r = "ALA" -> "A" [] r = "VAL" -> "V" [] r = "GLU" -> "E"
          [] r = "TYR" -> "Y" [] r = "MET" -> "M"]

\* A line of a structure file by its fields: the record name (columns 1-6),
\* the atom name (13-16), the residue name (18-20), the chain (22), the
\* residue number (23-26) and the rest of the line (serial, coordinates).
PdbLine(rec, atom, resname, chain, resnum, rest) ==
    [rec |-> rec, atom |-> atom, resname |-> resname, chain |-> chain,
     resnum |-> resnum, rest |-> rest]

\* The lines a structure file is made of here: a lysine A 1 with a side
\* chain, an alanine A 2, a selenomethionine B 1 (not in RES_CODES), a
\* ligand atom and a chain terminator.
PdbLines ==
    { PdbLine("ATOM", "N", "LYS", "A", 1, "r1"),
      PdbLine("ATOM", "CB", "LYS", "A", 1, "r2"),
      PdbLine("ATOM", "CG", "LYS", "A", 1, "r3"),
      PdbLine("ATOM", "CA", "ALA", "A", 2, "r4"),
      PdbLine("ATOM", "CB", "MSE", "B", 1, "r5"),
      PdbLine("HETATM", "CA", "LIG", "A", 1, "r6"),
      PdbLine("TER", "", "", "", 0, "r7") }

RECURSIVE SeqsUpTo(_, _)
SeqsUpTo(S, n) ==
    IF n = 0 THEN {<<>>}
    ELSE LET shorter == SeqsUpTo(S, n - 1)
         IN  shorter \cup {Append(q, x) : q \in shorter, x \in S}

IsTarget(line, target_chain, target_resnum) ==
    target_chain = line.chain /\ target_resnum = line.resnum

\* Lines 45-57 with the other atoms of the residue kept as they are
MutateLineKeepSideChain(line, target_chain, target_resnum, mut_resname) ==
    IF line.rec = "ATOM"
    THEN IF IsTarget(line, target_chain, target_resnum)
         THEN IF line.atom \in ATOMS_TO_BE_MUTATED
              THEN <<[line EXCEPT !.resname = mut_resname]>>
              ELSE <<line>>
         ELSE <<line>>
    ELSE <<>>

\* Lines 45-57: what one line of the input adds to mut_pdb_l
MutateLine(line, target_chain, target_resnum, mut_resname) ==
    IF line.rec = "ATOM"
    THEN IF IsTarget(line, target_chain, target_resnum)
         THEN IF line.atom \in ATOMS_TO_BE_MUTATED
              THEN <<[line EXCEPT !.resname = mut_resname]>>
              ELSE <<>>
         ELSE <<line>>
    ELSE <<>>

RECURSIVE MutateLines(_, _, _, _)
MutateLines(lines, target_chain, target_resnum, mut_resname) ==
    IF lines = <<>> THEN <<>>
    ELSE MutateLine(lines[1], target_chain, target_resnum, mut_resname)
            \o MutateLines(Tail(lines), target_chain, target_resnum,
                           mut_resname)

\* Lines 42, 50-51: the residue name of the first atom of the residue, ''
\* when the file has none
OriResname(lines, target_chain, target_resnum) ==
    LET hits == {i \in 1..Len(lines) :
                    /\ lines[i].rec = "ATOM"
                    /\ IsTarget(lines[i], target_chain, target_resnum)}
    IN  IF hits = {} THEN ""
        ELSE lines[CHOOSE i \in hits : \A h \in hits : i <= h].resname

\* name.replace('.pdb', new): every '.pdb' of the name is replaced
RECURSIVE ReplacePdb(_, _)
ReplacePdb(name, new) ==
    IF name = <<>> THEN <<>>
    ELSE (IF name[1] = ".pdb" THEN new ELSE <<name[1]>>)
            \o ReplacePdb(Tail(name), new)

\* Lines 58-60
MutFname(name, target_chain, resname, target_resnum, mut_resname) ==
    ReplacePdb(name,
               <<"-", target_chain, "_", RES_CODES[resname]>>
                  \o IntToStr(target_resnum)
                  \o <<RES_CODES[mut_resname], ".pdb">>)

Pending == [status |-> "pending"]

\* mutate(pdb_f, target_chain, target_resnum, mut_resname): the file it
\* writes, or the KeyError of the RES_CODES lookups of line 58
mutate(pdb_f, target_chain, target_resnum, mut_resname) ==
    LET resname == OriResname(pdb_f.lines, target_chain, target_resnum)
    IN  IF resname \notin DOMAIN RES_CODES \/ mut_resname \notin DOMAIN RES_CODES
        THEN [status |-> "raised"]
        ELSE [status |-> "written",
              fname |-> MutFname(pdb_f.name, target_chain, resname,
                                 target_resnum, mut_resname),
              lines |-> MutateLines(pdb_f.lines, target_chain, target_resnum,
                                    mut_resname)]

MutInit ==
    /\ mut_in \in [pdb_f : [name : {FileName(1)},
                            lines : SeqsUpTo(PdbLines, MaxLines)],
                   target_chain : {"A", "B"},
                   target_resnum : {1, 2},
                   mut_resname : {"ALA", "GLY"}]
    /\ mut_out = Pending

MutIdle ==
    /\ mut_in = [pdb_f |-> [name |-> <<>>, lines |-> <<>>],
                 target_chain |-> "A", target_resnum |-> 1,
                 mut_resname |-> "ALA"]
    /\ mut_out = [status |-> "raised"]

CallMutate ==
    /\ mut_out = Pending
    /\ mut_out' = mutate(mut_in.pdb_f, mut_in.target_chain,
                         mut_in.target_resnum, mut_in.mut_resname)
    /\ UNCHANGED mut_in
    /\ UNCHANGED notMut

MutNext == CallMutate

InTarget(line) == IsTarget(line, mut_in.target_chain, mut_in.target_resnum)

\* C6 as claimed: the written file has every line of the input, in order,
\* and differs only in the residue name of the atoms C, N, CA, O, CB of
\* the requested residue.
C6_OnlyResnameFieldChanges ==
    mut_out.status = "written" =>
        /\ Len(mut_out.lines) = Len(mut_in.pdb_f.lines)
        /\ \A i \in 1..Len(mut_in.pdb_f.lines) :
             LET line == mut_in.pdb_f.lines[i]
             IN  IF /\ line.rec = "ATOM"
                    /\ InTarget(line)
                    /\ line.atom \in {"C", "N", "CA", "O", "CB"}
                 THEN mut_out.lines[i] =
                         [line EXCEPT !.resname = mut_in.mut_resname]
                 ELSE mut_out.lines[i] = line

\* The ATOM records the written file keeps
KeptByMutate(line) ==
    /\ line.rec = "ATOM"
    /\ InTarget(line) => line.atom \in {"C", "N", "CA", "O", "CB"}

\* C6 amended: the written file holds, in the original order, exactly the
\* ATOM records of the input without the atoms of the requested residue
\* that are not C, N, CA, O or CB; the kept records of the requested
\* residue differ from the input only in the residue name, which is the
\* target type, and the ATOM records of all other residues are unchanged.
C6_AtomRecordsKeptInOrder ==
    mut_out.status = "written" =>
        LET kept == SelectSeq(mut_in.pdb_f.lines, KeptByMutate)
        IN  /\ Len(mut_out.lines) = Len(kept)
            /\ \A i \in 1..Len(kept) :
                 IF InTarget(kept[i])
                 THEN /\ mut_out.lines[i].resname = mut_in.mut_resname
                      /\ \A f \in {"rec", "atom", "chain", "resnum", "rest"} :
                           mut_out.lines[i][f] = kept[i][f]
                 ELSE mut_out.lines[i] = kept[i]

\* A file was written from an input holding an atom of the residue that is
\* renamed, one that is not in the five-atom set, an atom of another
\* residue and a line that is no ATOM record.
C6_Witness ==
    /\ mut_out.status = "written"
    /\ \E i, j, k, l \in 1..Len(mut_in.pdb_f.lines) :
         LET ls == mut_in.pdb_f.lines
         IN  /\ ls[i].rec = "ATOM" /\ InTarget(ls[i]) /\ ls[i].atom = "CB"
             /\ ls[i].resname # mut_in.mut_resname
             /\ ls[j].rec = "ATOM" /\ InTarget(ls[j]) /\ ls[j].atom = "CG"
             /\ ls[k].rec = "ATOM" /\ ~InTarget(ls[k])
             /\ ls[l].rec # "ATOM"


\* ------------------------------------------------------------ calc_score
MaxReportLines == 3

\* A local variable: never assigned, or holding a float
Unbound == [bound |-> FALSE, val |-> 0]
Bound(v) == [bound |-> TRUE, val |-> v]

\* A piece of the report's text: the number it spells, or no number
NumText(v) == [num |-> TRUE, val |-> v]
NotANumber == [num |-> FALSE, val |-> 0]
TermFields == <<"vdw", "elec", "desolv", "bsa">>

\* A line of the scorer's report: a score line ("> HADDOCK-score
\* (emscoring) ...") with its last word, a terms line ("> vdw ...") with
\* the text after each "<field>=" it has, or any other line.
ScoreLine(last) == [kind |-> "score", last |-> last, fields |-> EmptyMap]
TermsLine(fields) == [kind |-> "terms", last |-> NotANumber, fields |-> fields]
OtherLine == [kind |-> "other", last |-> NotANumber, fields |-> EmptyMap]

ReportLines ==
    { ScoreLine(NumText(-5)), ScoreLine(NumText(7)), ScoreLine(NotANumber),
      TermsLine([vdw |-> NumText(1), elec |-> NumText(2),
                 desolv |-> NumText(3), bsa |-> NumText(4)]),
      TermsLine([vdw |-> NumText(-1), elec |-> NumText(-2),
                 desolv |-> NumText(-3), bsa |-> NumText(-4)]),
      TermsLine([vdw |-> NumText(1), desolv |-> NumText(3),
                 bsa |-> NumText(4)]),
      TermsLine([vdw |-> NumText(1), elec |-> NumText(2),
                 desolv |-> NumText(3)]),
      TermsLine([vdw |-> NumText(1), elec |-> NotANumber,
                 desolv |-> NumText(3), bsa |-> NumText(4)]),
      OtherLine }

Raised(exc) == [status |-> "raised", exc |-> exc]

\* float(text) succeeds
IsFloat(text) == text.num

\* Lines 103-106 for one terms line: the four fields in order, the first
\* that is missing (split(...)[1]) or not a number (float) raises
RECURSIVE ParseTerms(_, _, _)
ParseTerms(st, ln, k) ==
    IF k > Len(TermFields) THEN st
    ELSE LET f == TermFields[k]
         IN  IF f \notin DOMAIN ln.fields THEN Raised("IndexError")
             ELSE IF ~IsFloat(ln.fields[f]) THEN Raised("ValueError")
             ELSE ParseTerms([st EXCEPT ![f] = Bound(ln.fields[f].val)], ln, k + 1)

\* Lines 99-106: the loop over the report, st the local variables so far
RECURSIVE ScanReport(_, _)
ScanReport(st, out) ==
    IF out = <<>> THEN st
    ELSE LET ln == out[1]
             st1 == IF ln.kind = "score"
                    THEN IF IsFloat(ln.last)
                         THEN [st EXCEPT !.score = Bound(ln.last.val)]
                         ELSE Raised("ValueError")
                    ELSE IF ln.kind = "terms" THEN ParseTerms(st, ln, 1)
                    ELSE st
         IN  IF st1.status = "raised" THEN st1 ELSE ScanReport(st1, Tail(out))

Locals == [status |-> "ok", score |-> Unbound, vdw |-> Unbound,
           elec |-> Unbound, desolv |-> Unbound, bsa |-> Unbound]

\* Line 107 with every term that was never assigned returned as 0.0
ReturnTermsDefaulting(st) ==
    [status |-> "ok", score |-> st.score.val, vdw |-> st.vdw.val,
     elec |-> st.elec.val, desolv |-> st.desolv.val, bsa |-> st.bsa.val]

\* Line 107: reading a local that was never assigned raises
ReturnTerms(st) ==
    IF \E f \in {"score", "vdw", "elec", "desolv", "bsa"} : ~st[f].bound
    THEN Raised("UnboundLocalError")
    ELSE [status |-> "ok", score |-> st.score.val, vdw |-> st.vdw.val,
          elec |-> st.elec.val, desolv |-> st.desolv.val, bsa |-> st.bsa.val]

\* calc_score on what the scorer process gave back
calc_score(p) ==
    IF p.returncode # 0 THEN Raised("Exception")
    ELSE LET st == ScanReport(Locals, p.stdout)
         IN  IF st.status = "raised" THEN st ELSE ReturnTerms(st)

ScInit ==
    /\ sc_in \in [returncode : {0, 1},
                  stdout : SeqsUpTo(ReportLines, MaxReportLines)]
    /\ sc_out = Pending

ScIdle ==
    /\ sc_in = [returncode |-> 1, stdout |-> <<>>]
    /\ sc_out = Raised("Exception")

CallCalcScore ==
    /\ sc_out = Pending
    /\ sc_out' = calc_score(sc_in)
    /\ UNCHANGED sc_in
    /\ UNCHANGED notSc

ScNext == CallCalcScore

LinesOfKind(kind) == {i \in 1..Len(sc_in.stdout) : sc_in.stdout[i].kind = kind}

Last(S) == CHOOSE i \in S : \A j \in S : j <= i

\* C7: a tuple is returned only when the scorer exited with 0 and its
\* report has a score line and a terms line, and then every term is the
\* one of the last such line of this report; a report lacking either line,
\* or a terms line lacking one of vdw=, elec=, desolv=, bsa=, ends in an
\* exception, and so does a non-zero exit code.
C7_NoTermsWithoutReportLines ==
    sc_out # Pending =>
        /\ sc_out.status \in {"ok", "raised"}
        /\ sc_in.returncode # 0 => sc_out = Raised("Exception")
        /\ LinesOfKind("score") = {} \/ LinesOfKind("terms") = {} =>
              sc_out.status = "raised"
        /\ (\E i \in LinesOfKind("terms") :
               \E f \in {"vdw", "elec", "desolv", "bsa"} :
                  f \notin DOMAIN sc_in.stdout[i].fields) =>
              sc_out.status = "raised"
        /\ sc_out.status = "ok" =>
              /\ sc_in.returncode = 0
              /\ sc_out.score =
                    sc_in.stdout[Last(LinesOfKind("score"))].last.val
              /\ \A f \in {"vdw", "elec", "desolv", "bsa"} :
                   sc_out[f] =
                      sc_in.stdout[Last(LinesOfKind("terms"))].fields[f].val
              /\ \A i \in LinesOfKind("score") : sc_in.stdout[i].last.num
              /\ \A i \in LinesOfKind("terms") :
                   \A f \in {"vdw", "elec", "desolv", "bsa"} :
                      sc_in.stdout[i].fields[f].num

\* The scorer exited with 0 and its report has a score line but no terms
\* line: the call raised.
C7_Witness ==
    /\ sc_out # Pending
    /\ sc_in.returncode = 0
    /\ LinesOfKind("score") # {}
    /\ \A i \in LinesOfKind("score") : IsFloat(sc_in.stdout[i].last)
    /\ LinesOfKind("terms") = {}
    /\ sc_out = Raised("UnboundLocalError")


\* ----------------------------------------------- add_zscores on a column
MaxRows == 4

\* Values of a delta column, in units of 0.001
ColumnValues == {-1000, 0, 2000}

ZInit ==
    /\ \E n \in 0..MaxRows :
         z_in \in [1..n -> {<<v, 1>> : v \in ColumnValues}]
    /\ z_out = Pending

ZIdle ==
    /\ z_in = <<>>
    /\ z_out = [status |-> "done", z_score |-> <<>>]

CallAddZscores ==
    /\ z_out = Pending
    /\ z_out' = [status |-> "done", z_score |-> add_zscores(z_in)]
    /\ UNCHANGED z_in
    /\ UNCHANGED notZ

ZNext == CallAddZscores

AllEqual(col) == \A i, j \in 1..Len(col) : col[i] = col[j]

\* (x - mean) / std with the population standard deviation, as sign and square
PopulationZ(col, i) ==
    LET xs == Scaled(col)
        num == Len(xs) * xs[i] - SeqSum(xs)
    IN  [kind |-> "num", sign |-> Sign(num),
         sq |-> Rat(num * num, SumSq(xs))]

\* C8: a column of one or more rows whose values are all equal gets z_score
\* 0 in every row, never not-a-number, and in any other column the z_score
\* is the deviation from the mean over the population standard deviation.
C8_ZeroVarianceGivesZero ==
    z_out # Pending /\ Len(z_in) >= 1 =>
        /\ Len(z_out.z_score) = Len(z_in)
        /\ \A i \in 1..Len(z_in) : z_out.z_score[i] # NaN
        /\ AllEqual(z_in) => \A i \in 1..Len(z_in) : z_out.z_score[i] = ZeroZ
        /\ ~AllEqual(z_in) =>
              \A i \in 1..Len(z_in) : z_out.z_score[i] = PopulationZ(z_in, i)


\* ------------------------------------------------- Scan / ScanJob.run
MaxStructs == 2

Jobs == {1, 2}

\* params['params']['scan_residue']
scan_res == "ALA"

\* Floats that may be not-a-number
FNum(v) == [nan |-> FALSE, val |-> v]
FNaN == [nan |-> TRUE, val |-> 0]
FSub(a, b) == IF a.nan \/ b.nan THEN FNaN ELSE FNum(a.val - b.val)

\* x != float('nan'): true of every x, not-a-number included
NeqNaN(x) == TRUE

\* native.score as the workflow hands it over
WorkflowScores ==
    { [kind |-> "float", val |-> 3000], [kind |-> "numstr", val |-> 3000],
      [kind |-> "str", val |-> 0], [kind |-> "none", val |-> 0] }

\* The job has not read the score of a model yet
NoScore == [kind |-> "unread", val |-> 0]

\* Lines 266-270: float(ori_score), a ValueError giving nan; float(None)
\* raises TypeError, which is not caught
Coerce(score) ==
    IF score.kind = "none" THEN Raised("TypeError")
    ELSE IF score.kind = "str" THEN [status |-> "ok", value |-> FNaN]
    ELSE [status |-> "ok", value |-> FNum(score.val)]

\* Interface residues of a structure, as CAPRI.identify_interface and
\* load_coords give them: chain, residue number and residue name
ResPool == << [chain |-> "A", res |-> 1, resname |-> "LYS"],
              [chain |-> "B", res |-> 1, resname |-> "MSE"],
              [chain |-> "A", res |-> 2, resname |-> "ALA"] >>

RECURSIVE SubSeqOf(_, _, _)
SubSeqOf(pool, S, k) ==
    IF k > Len(pool) THEN <<>>
    ELSE (IF k \in S THEN <<pool[k]>> ELSE <<>>) \o SubSeqOf(pool, S, k + 1)

Interfaces == {SubSeqOf(ResPool, S, 1) : S \in SUBSET (1..Len(ResPool))}

\* The structure file of a model: the atoms of its interface residues
StructLines(interface) ==
    [k \in 1..Len(interface) |->
        PdbLine("ATOM", "CA", interface[k].resname, interface[k].chain,
                interface[k].res, "xyz")]

\* What the scorer process gives back for a native and for a mutant
GoodReport(base) ==
    << OtherLine,
       ScoreLine(NumText(base)),
       TermsLine([vdw |-> NumText(base + 1000), elec |-> NumText(base + 2000),
                  desolv |-> NumText(base + 3000),
                  bsa |-> NumText(base + 4000)]) >>

ScorerRuns(base) ==
    { [returncode |-> 0, stdout |-> GoodReport(base)],
      [returncode |-> 0, stdout |-> <<OtherLine, ScoreLine(NumText(base))>>],
      [returncode |-> 1, stdout |-> <<>>] }

\* Line 273 without the core in the name
ScDirShared(core) == <<"haddock3-score">>

\* Line 273: sc_dir
ScDir(core) == <<"haddock3-score-">> \o IntToStr(core)

\* output_name as the module hands it to Scan, one per core
OutputName(core) == <<"alascan_">> \o IntToStr(core) \o <<".scan">>

\* Line 353: Path(self.path, self.output_name)
OutputPath(path, output_name) == path \o <<"/">> \o output_name

\* Lines 310-324: the row appended for a rescored mutant
ScanRow(r, c, n, ori_score) ==
    [chain |-> r.chain, res |-> r.res, ori_resname |-> r.resname,
     end_resname |-> scan_res,
     score |-> c.score, vdw |-> c.vdw, elec |-> c.elec, desolv |-> c.desolv,
     bsa |-> c.bsa,
     delta_ori_score |-> IF NeqNaN(ori_score)
                         THEN FSub(FNum(c.score), ori_score) ELSE FNaN,
     delta |-> << c.score - n.score, c.vdw - n.vdw, c.elec - n.elec,
                  c.desolv - n.desolv, c.bsa - n.bsa >>]

\* Lines 331-349: the data of the result file, with the z_score column
ScanFile(scan_data) ==
    LET z == add_zscores([k \in 1..Len(scan_data) |->
                             <<scan_data[k].delta[1], 1>>])
    IN  [present |-> TRUE,
         rows |-> [k \in 1..Len(scan_data) |->
                      [f \in DOMAIN scan_data[k] \cup {"z_score"} |->
                          IF f = "z_score" THEN z[k] ELSE scan_data[k][f]]]]

NoTerms == [status |-> "none"]

\* A Scan object before run(): its models, its core, and empty locals
NewJob(core, model_list) ==
    [core |-> core, model_list |-> model_list,
     output_name |-> OutputName(core), path |-> <<"cwd">>,
     pc |-> IF model_list = <<>> THEN "output" ELSE "native",
     m |-> 1, r |-> 1,
     score |-> NoScore, ori_score |-> FNaN, n |-> NoTerms, interface |-> <<>>,
     scan_data |-> <<>>, mut_pdb_name |-> <<>>,
     failed_at |-> "nowhere"]

ScanInit ==
    /\ \E n \in 1..MaxStructs, k \in 0..MaxStructs, cores \in [Jobs -> {0, 1}] :
         /\ k <= n
         /\ cores[1] # cores[2]
         /\ job = [j \in Jobs |->
                      NewJob(cores[j],
                             IF j = 1 THEN [i \in 1..k |-> i]
                             ELSE [i \in 1..(n - k) |-> k + i])]
    /\ disk = {}
    /\ fs_writes = [j \in Jobs |-> {}]
    /\ scan_files = EmptyMap

ScanIdle ==
    /\ job = [j \in Jobs |-> [NewJob(j - 1, <<>>) EXCEPT !.pc = "done"]]
    /\ disk = {}
    /\ fs_writes = [j \in Jobs |-> {}]

Fail(jb, where) == [jb EXCEPT !.pc = "raised", !.failed_at = where]

\* Lines 264-288: the score of the next model is read and coerced, the native is
\* rescored in the job's run directory, and its interface is identified.
StartNative(j) ==
    /\ job[j].pc = "native"
    /\ \E score \in WorkflowScores, p \in ScorerRuns(-9000),
          interface \in Interfaces :
         LET jb == job[j]
             ori == Coerce(score)
             sc_dir == ScDir(jb.core)
             n == calc_score(p)
         IN  IF ori.status = "raised"
             THEN /\ job' = [job EXCEPT
                                ![j] = Fail([jb EXCEPT !.score = score],
                                            "coerce")]
                  /\ UNCHANGED fs_writes
             ELSE /\ fs_writes' = [fs_writes EXCEPT ![j] = @ \cup {sc_dir}]
                  /\ job' = [job EXCEPT ![j] =
                               IF n.status = "raised"
                               THEN Fail([jb EXCEPT !.score = score,
                                                    !.ori_score = ori.value],
                                         "native")
                               ELSE [jb EXCEPT !.score = score,
                                               !.ori_score = ori.value,
                                               !.n = n,
                                               !.interface = interface,
                                               !.scan_data = <<>>,
                                               !.r = 1,
                                               !.pc = "residue"]]
    /\ UNCHANGED <<disk, scan_files>>
    /\ UNCHANGED notScan

\* Lines 292-306: the next interface residue; one that already is the scan
\* residue is passed over, any other is mutated into a new structure file.
MutateResidue(j) ==
    /\ job[j].pc = "residue"
    /\ job[j].r <= Len(job[j].interface)
    /\ LET jb == job[j]
           res == jb.interface[jb.r]
           native == [name |-> FileName(jb.model_list[jb.m]),
                      lines |-> StructLines(jb.interface)]
           mut == mutate(native, res.chain, res.res, scan_res)
       IN  IF res.resname = scan_res
           THEN /\ job' = [job EXCEPT ![j].r = @ + 1]
                /\ UNCHANGED <<disk, fs_writes>>
           ELSE IF mut.status = "raised"
           THEN /\ job' = [job EXCEPT ![j] = Fail(jb, "mutate")]
                /\ UNCHANGED <<disk, fs_writes>>
           ELSE /\ job' = [job EXCEPT ![j].mut_pdb_name = mut.fname,
                                      ![j].pc = "rescore"]
                /\ disk' = disk \cup {mut.fname}
                /\ fs_writes' = [fs_writes EXCEPT ![j] = @ \cup {mut.fname}]
    /\ UNCHANGED scan_files
    /\ UNCHANGED notScan

\* Lines 307-325: the mutant is rescored, its row appended and its file
\* removed; an exception of calc_score leaves run() at line 307.
RescoreMutant(j) ==
    /\ job[j].pc = "rescore"
    /\ \E p \in ScorerRuns(-7000) :
         LET jb == job[j]
             c == calc_score(p)
         IN  /\ fs_writes' = [fs_writes EXCEPT ![j] = @ \cup {ScDir(jb.core)}]
             /\ IF c.status = "raised"
                THEN /\ job' = [job EXCEPT ![j] = Fail(jb, "rescore")]
                     /\ UNCHANGED disk
                ELSE IF jb.mut_pdb_name \notin disk
                THEN /\ job' = [job EXCEPT ![j] = Fail(jb, "remove")]
                     /\ UNCHANGED disk
                ELSE /\ job' = [job EXCEPT
                                  ![j].scan_data =
                                      Append(@, ScanRow(jb.interface[jb.r], c,
                                                        jb.n, jb.ori_score)),
                                  ![j].r = @ + 1,
                                  ![j].pc = "residue"]
                     /\ disk' = disk \ {jb.mut_pdb_name}
    /\ UNCHANGED scan_files
    /\ UNCHANGED notScan

\* Lines 326-349: after the last residue the result file of the model is
\* written; the loop of line 264 goes on with the next model.
WriteScan(j) ==
    /\ job[j].pc = "residue"
    /\ job[j].r > Len(job[j].interface)
    /\ LET jb == job[j]
           alascan_fname == ScanFname(FileName(jb.model_list[jb.m]))
       IN  /\ scan_files' = Ext(scan_files, alascan_fname,
                                ScanFile(jb.scan_data))
           /\ fs_writes' = [fs_writes EXCEPT ![j] = @ \cup {alascan_fname}]
           /\ job' = [job EXCEPT
                        ![j].m = @ + 1,
                        ![j].pc = IF jb.m = Len(jb.model_list)
                                  THEN "output" ELSE "native"]
    /\ UNCHANGED disk
    /\ UNCHANGED notScan

\* Lines 236-241 and 351-358: run() returned, output() writes the job's file
Output(j) ==
    /\ job[j].pc = "output"
    /\ fs_writes' = [fs_writes EXCEPT
                       ![j] = @ \cup {OutputPath(job[j].path,
                                                 job[j].output_name)}]
    /\ job' = [job EXCEPT ![j].pc = "done"]
    /\ UNCHANGED <<disk, scan_files>>
    /\ UNCHANGED notScan

ScanNext ==
    \E j \in Jobs :
        \/ StartNative(j)
        \/ MutateResidue(j)
        \/ RescoreMutant(j)
        \/ WriteScan(j)
        \/ Output(j)


\* The result files of the models of a job
ScanFilesOf(j) ==
    {ScanFname(FileName(job[j].model_list[i])) :
        i \in 1..Len(job[j].model_list)}

\* C9: two jobs with disjoint models and different cores never write the
\* same path: mutant structure files, scorer run directory, result files
\* and job output file of one are all different from those of the other.
C9_JobsWriteDisjointPaths ==
    \A i, j \in Jobs : i # j => fs_writes[i] \cap fs_writes[j] = {}

\* Both jobs ran to the end, each having mutated residue A 1 (a lysine) of
\* its first model, rescored it in its run directory, and written a result
\* file and its output file.
C9_Witness ==
    \A j \in Jobs :
        /\ job[j].pc = "done"
        /\ job[j].model_list # <<>>
        /\ MutFname(FileName(job[j].model_list[1]), "A", "LYS", 1, scan_res)
              \in fs_writes[j]
        /\ ScDir(job[j].core) \in fs_writes[j]
        /\ ScanFilesOf(j) \subseteq fs_writes[j]
        /\ OutputPath(job[j].path, job[j].output_name) \in fs_writes[j]

\* C10: when mutate or calc_score raises for one interface residue, run()
\* does not end there: the job goes on, and once it is over the result
\* file of every model of its partition has been written.
C10_ResidueFailureNoEarlyExit ==
    \A j \in Jobs :
        job[j].failed_at \in {"mutate", "rescore"} =>
            /\ job[j].pc # "raised"
            /\ job[j].pc = "done" => ScanFilesOf(j) \subseteq DOMAIN scan_files

\* The mutant structure files a job created that are still on disk
MutantFilesLeft(j) == fs_writes[j] \cap disk

\* C11: a mutant structure file is removed before the job moves past its
\* residue, whether the rescoring succeeded or calc_score raised: while the
\* job is between residues, and once run() has ended (returned or raised),
\* no mutant file the job created is on disk.
C11_MutantFilesRemoved ==
    \A j \in Jobs :
        job[j].pc \in {"residue", "native", "output", "done", "raised"} =>
            MutantFilesLeft(j) = {}

\* C13: a model whose workflow score is not numeric, a string that spells no
\* number or None, is not failed for it: the score becomes not-a-number,
\* the native is rescored, the residues are scanned, and every row of the
\* model carries not-a-number as its delta against the original score.
C13_NonNumericScoreCoerced ==
    \A j \in Jobs :
        job[j].score.kind \in {"str", "none"} =>
            /\ job[j].failed_at # "coerce"
            /\ job[j].ori_score.nan
            /\ job[j].failed_at # "native" =>
                  \A k \in 1..Len(job[j].scan_data) :
                      job[j].scan_data[k].delta_ori_score.nan


\* -------------------------------------------------------- specifications
InitAgg ==
    /\ AggInit
    /\ MpiIdle
    /\ MutIdle
    /\ ScIdle
    /\ ZIdle
    /\ ScanIdle

SpecAgg == InitAgg /\ [][AggNext]_vars

InitMPI ==
    /\ MpiInit
    /\ AggIdle
    /\ MutIdle
    /\ ScIdle
    /\ ZIdle
    /\ ScanIdle

SpecMPI == InitMPI /\ [][MpiNext]_vars
InitMutate ==
    /\ MutInit
    /\ AggIdle
    /\ MpiIdle
    /\ ScIdle
    /\ ZIdle
    /\ ScanIdle

SpecMutate == InitMutate /\ [][MutNext]_vars
InitScore ==
    /\ ScInit
    /\ AggIdle
    /\ MpiIdle
    /\ MutIdle
    /\ ZIdle
    /\ ScanIdle

SpecScore == InitScore /\ [][ScNext]_vars
InitZ ==
    /\ ZInit
    /\ AggIdle
    /\ MpiIdle
    /\ MutIdle
    /\ ScIdle
    /\ ScanIdle

SpecZ == InitZ /\ [][ZNext]_vars
InitScan ==
    /\ ScanInit
    /\ models = <<>>
    /\ clt_scan = EmptyMap
    /\ cl_pops = EmptyMap
    /\ clt_order = <<>>
    /\ agg_i = 1
    /\ agg_pc = "done"
    /\ summaries = EmptyMap
    /\ MpiIdle
    /\ MutIdle
    /\ ScIdle
    /\ ZIdle

SpecScan == InitScan /\ [][ScanNext]_vars

====
